---- MODULE Spec2Model ----
(***************************************************************************)
(* Messaging Gateway of ClawSwarm: the platform adapters (Telegram,        *)
(* Discord, WhatsApp), the gRPC servicer (PollMessages, StreamMessages,    *)
(* Health) and the polling consumer (run_agent_loop).                      *)
(*                                                                         *)
(* Every coroutine is cut at its await points: what runs between two       *)
(* awaits is one atomic step of the asyncio event loop.                    *)
(*                                                                         *)
(* TLC integers are 32 bit, so the time axis is scaled: DISCORD_EPOCH is   *)
(* 1500 instead of 1420070400000 and Telegram dates are 1 or 2 seconds.    *)
(* Every timestamp of the model lies within 511 ms of DISCORD_EPOCH, so    *)
(* that (ms - DISCORD_EPOCH) << 22 is computed exactly.                    *)
(***************************************************************************)
EXTENDS Integers, Sequences, FiniteSets, TLC

(* ------------------------------ constants ------------------------------ *)

UNSPECIFIED == 0
TELEGRAM == 1
DISCORD == 2
WHATSAPP == 3
EMAIL == 4

DISCORD_EPOCH == 1500
SNOWFLAKE_SHIFT == 22
DEFAULT_MAX_MESSAGES == 100
TELEGRAM_LIMIT_CAP == 100
DISCORD_CHANNEL_CAP == 20
STREAM_MAX_MESSAGES == 50
max_messages_per_poll == 20

\* self._offset of a TelegramAdapter that has seen no update yet
None == -1

(* ------------------------------- bounds -------------------------------- *)

\* number of updates the Telegram upstream produces
MaxUpdates == 2
\* number of messages posted to one Discord channel
MaxPerChannel == 1
\* largest max_messages a direct PollMessages caller asks for (0 = unset)
MaxRequested == 2
\* the longest batch of the abstract adapter, the fetches of one generator
MaxBatch == 2
MaxFetches == 3
\* how far past each chosen timestamp the conversion is tried
MaxOffset == 9

\* message dates of the Telegram upstream, in seconds
TgDates == {1, 2}
\* the timestamp part (snowflake >> 22) of a Discord id
DcHighBits == {0, 2}
\* max_messages of a direct PollMessages caller: unset, one, the largest
Requested == {0, 1, MaxRequested}
\* since_timestamp_utc_ms of a direct PollMessages caller
RpcSince == {0, 1500}
\* platforms lists of the requests
PlatformFilters ==
  { <<>>, <<UNSPECIFIED>>, <<DISCORD>>, <<EMAIL>>, <<TELEGRAM, TELEGRAM>>,
    <<UNSPECIFIED, DISCORD, TELEGRAM>> }
\* the adapters argument of MessagingGatewayServicer
AdapterLists ==
  { <<>>, <<TELEGRAM>>, <<TELEGRAM, DISCORD, WHATSAPP>> }
Versions == {"0.1.0", "1.0"}
\* DISCORD_CHANNEL_IDS
ChannelLists == { <<>>, <<1>> }
PollIds == {"rpc", "agent"}

(* ------------------------------- helpers ------------------------------- *)

Min(a, b) == IF a <= b THEN a ELSE b
Max(a, b) == IF a >= b THEN a ELSE b

Range(s) == { s[i] : i \in 1..Len(s) }

RECURSIVE Pow2(_)
Pow2(n) == IF n = 0 THEN 1 ELSE 2 * Pow2(n - 1)

\* Python seq[:n]
PySlice(s, n) ==
  IF n >= 0 THEN SubSeq(s, 1, Min(n, Len(s)))
  ELSE SubSeq(s, 1, Max(0, Len(s) + n))

\* insert m behind every element whose timestamp is <= m's (stable)
RECURSIVE InsertByTs(_, _)
InsertByTs(s, m) ==
  IF s = <<>> THEN <<m>>
  ELSE IF s[Len(s)].timestamp_utc_ms <= m.timestamp_utc_ms THEN Append(s, m)
  ELSE Append(InsertByTs(SubSeq(s, 1, Len(s) - 1), m), s[Len(s)])

\* variant: the list is left in fetch order
SortByTs_Unsorted(s) == s

\* list.sort(key=lambda m: m.timestamp_utc_ms): stable, ascending
RECURSIVE SortByTs(_)
SortByTs(s) ==
  IF s = <<>> THEN <<>>
  ELSE InsertByTs(SortByTs(SubSeq(s, 1, Len(s) - 1)), s[Len(s)])

\* a set of messages with distinct ids as the list ordered by id, descending
RECURSIVE SeqByIdDesc(_)
SeqByIdDesc(S) ==
  IF S = {} THEN <<>>
  ELSE LET m == CHOOSE x \in S : \A y \in S : y.id <= x.id
       IN  <<m>> \o SeqByIdDesc(S \ {m})

UnifiedMessage(platform, id, ts) ==
  [platform |-> platform, id |-> id, timestamp_utc_ms |-> ts]

(* ---------------------------- Discord ids ------------------------------ *)

_discord_snowflake_to_ms(snowflake) ==
  (snowflake \div Pow2(SNOWFLAKE_SHIFT)) + DISCORD_EPOCH

_ms_to_discord_snowflake(ms) ==
  (ms - DISCORD_EPOCH) * Pow2(SNOWFLAKE_SHIFT)

Snowflake(hi, lo) == hi * Pow2(SNOWFLAKE_SHIFT) + lo

(* -------------------------------- state -------------------------------- *)

VARIABLES
  \* MessagingGatewayServicer
  adapters_by_platform,  \* the registered platforms, in dict (insertion) order
  version,               \* self._version
  \* adapter instances
  tg_token,              \* TelegramAdapter._token is set
  tg_offset,             \* TelegramAdapter._offset
  dc_token,              \* DiscordAdapter._token is set
  dc_channel_ids,        \* DiscordAdapter._channel_ids
  wa_creds,              \* WhatsAppAdapter._token and _phone_number_id are set
  \* upstream platforms
  tg_updates,            \* every update the Bot API has produced, by update_id
  tg_confirmed,          \* updates below this id are confirmed (forgotten)
  dc_messages,           \* the messages of the Discord channels
  \* RPCs in progress and their callers
  call,                  \* the PollMessages call of each caller
  stream,                \* the StreamMessages call
  agent,                 \* run_agent_loop
  health,                \* the last HealthResponse
  generator,             \* a MessageAdapter.stream_messages generator
  server,                \* the gateway process: its environment and listener
  conversion,            \* a timestamp taken to a Discord id and back
  \* history
  tg_received,           \* the highest update_id received from the Bot API
  delivered              \* the messages of every successful PollMessages response

vars ==
  << adapters_by_platform, version, tg_token, tg_offset, dc_token,
     dc_channel_ids, wa_creds, tg_updates, tg_confirmed, dc_messages,
     call, stream, agent, health, generator, server, conversion,
     tg_received, delivered >>

config_vars ==
  << adapters_by_platform, version, tg_token, dc_token, dc_channel_ids,
     wa_creds >>

upstream_vars == << tg_updates, tg_confirmed, dc_messages >>

(* ------------------------------ upstream ------------------------------- *)

\* Bot API getUpdates: the first `limit` unconfirmed updates from `offset` on
TgGetUpdates(offset, limit) ==
  LET from == IF offset = None THEN tg_confirmed ELSE Max(offset, tg_confirmed)
      idx  == { i \in 1..Len(tg_updates) : tg_updates[i].update_id >= from }
      lo   == IF idx = {} THEN Len(tg_updates) + 1
              ELSE CHOOSE i \in idx : \A j \in idx : i <= j
  IN  SubSeq(tg_updates, lo, Min(Len(tg_updates), lo + limit - 1))

\* getUpdates with an offset confirms every update below the offset
TgConfirm(offset) ==
  IF offset = None THEN tg_confirmed ELSE Max(offset, tg_confirmed)

\* GET /channels/{id}/messages?limit=&after=: the possible pages, newest first
DcListMessages(channel_id, limit, since) ==
  LET eligible == { m \in dc_messages :
                      /\ m.channel_id = channel_id
                      /\ since # 0 => m.id > _ms_to_discord_snowflake(since) }
      n == Min(limit, Cardinality(eligible))
  IN  { SeqByIdDesc(S) : S \in { T \in SUBSET eligible : Cardinality(T) = n } }

\* a call in progress notes that the upstream changed under it
Disturbed(k) ==
  IF k.pc \in {"call", "http"}
  THEN [k EXCEPT !.clean = FALSE, !.pending = <<>>] ELSE k

\* the platform produces an update: a message or channel post with its date,
\* or an update of another kind (date 0: it has none)
TelegramUpdate(date) ==
  /\ Len(tg_updates) < MaxUpdates
  /\ TELEGRAM \in Range(adapters_by_platform) /\ tg_token
  /\ tg_updates' = Append(tg_updates,
       [update_id |-> Len(tg_updates) + 1, has_msg |-> date # 0, date |-> date])
  /\ call' = [c \in PollIds |-> Disturbed(call[c])]
  /\ UNCHANGED << config_vars, conversion, tg_offset, tg_received,
                  tg_confirmed, dc_messages, stream, agent, health, generator,
                  server, delivered >>

\* somebody posts to a Discord channel (type 0 is an ordinary text message);
\* the low bits of the id (worker, process, increment) are never all zero
DiscordPost(channel_id, hi, type) ==
  /\ Cardinality({ m \in dc_messages : m.channel_id = channel_id })
       < MaxPerChannel
  /\ DISCORD \in Range(adapters_by_platform) /\ dc_token
  /\ channel_id \in Range(dc_channel_ids)
  /\ \A m \in dc_messages : m.id # Snowflake(hi, channel_id)
  /\ dc_messages' = dc_messages \cup
       { [id |-> Snowflake(hi, channel_id), channel_id |-> channel_id,
          type |-> type] }
  /\ call' = [c \in PollIds |-> Disturbed(call[c])]
  /\ UNCHANGED << config_vars, conversion, tg_offset, tg_received, tg_updates,
                  tg_confirmed, stream, agent, health, generator, server,
                  delivered >>

(* ---------------------------- fetch_messages --------------------------- *)
(* A frame is one activation of fetch_messages, suspended on its HTTP call *)
(* (stage "http"), returned (stage "ret", result in out) or raised (stage  *)
(* "raise", message in err).                                               *)

NoFrame ==
  [stage |-> "none", platform |-> UNSPECIFIED, since |-> 0, max |-> 0,
   limit |-> 0, offset |-> None, ch |-> 0, out |-> <<>>, err |-> ""]

Returned(platform, out) ==
  [NoFrame EXCEPT !.stage = "ret", !.platform = platform, !.out = out]

Raised(platform, err) ==
  [NoFrame EXCEPT !.stage = "raise", !.platform = platform, !.err = err]

\* variant: the request is sent whether or not there is a token
TelegramFetchBegin_NoGuard(since, max) ==
  [NoFrame EXCEPT !.stage = "http", !.platform = TELEGRAM,
     !.since = since, !.max = max,
     !.limit = Min(max, TELEGRAM_LIMIT_CAP), !.offset = tg_offset]

\* TelegramAdapter.fetch_messages up to the await of session.get
TelegramFetchBegin(since, max) ==
  IF ~tg_token THEN Returned(TELEGRAM, <<>>)
  ELSE [NoFrame EXCEPT !.stage = "http", !.platform = TELEGRAM,
          !.since = since, !.max = max,
          !.limit = Min(max, TELEGRAM_LIMIT_CAP), !.offset = tg_offset]

\* variant: a message at the watermark is kept
SkipOld_Strict(since, ts) == since # 0 /\ ts < since

\* the keep-or-skip test both adapters apply to a normalized timestamp
SkipOld(since, ts) == since # 0 /\ ts <= since

\* variant: the offset stays at the update seen last
NextOffset_Same(u) == u.update_id

\* self._offset = u["update_id"] + 1
NextOffset(u) == u.update_id + 1

\* the for loop over data["result"], from update i on; st = [out, offset]
RECURSIVE TelegramLoop(_, _, _, _, _)
TelegramLoop(data, i, since, max, st) ==
  IF i > Len(data) THEN st
  ELSE
    LET u   == data[i]
        st1 == [st EXCEPT !.offset = NextOffset(u)]
        ts  == u.date * 1000
    IN  IF ~u.has_msg THEN TelegramLoop(data, i + 1, since, max, st1)
        ELSE IF SkipOld(since, ts) THEN TelegramLoop(data, i + 1, since, max, st1)
        ELSE
          LET st2 == [st1 EXCEPT !.out =
                        Append(@, UnifiedMessage(TELEGRAM, u.update_id, ts))]
          IN  IF Len(st2.out) >= max THEN st2
              ELSE TelegramLoop(data, i + 1, since, max, st2)

\* DiscordAdapter.fetch_messages up to the await of the first session.get
DiscordFetchBegin(since, max) ==
  IF ~dc_token \/ dc_channel_ids = <<>> THEN Returned(DISCORD, <<>>)
  ELSE [NoFrame EXCEPT !.stage = "http", !.platform = DISCORD,
          !.since = since, !.max = max,
          !.limit = Max(1, max \div Len(dc_channel_ids)), !.ch = 1]

\* the for loop over one channel's page
RECURSIVE DiscordLoop(_, _, _, _)
DiscordLoop(data, i, since, out) ==
  IF i > Len(data) THEN out
  ELSE
    LET msg == data[i]
        ts  == _discord_snowflake_to_ms(msg.id)
    IN  IF msg.type # 0 THEN DiscordLoop(data, i + 1, since, out)
        ELSE IF SkipOld(since, ts) THEN DiscordLoop(data, i + 1, since, out)
        ELSE DiscordLoop(data, i + 1, since,
                         Append(out, UnifiedMessage(DISCORD, msg.id, ts)))

\* after a channel: break, go on to the next channel, or return the sorted list
DiscordNext(f, out, break) ==
  LET chans == PySlice(dc_channel_ids, DISCORD_CHANNEL_CAP)
  IN  IF break \/ f.ch >= Len(chans)
      THEN Returned(DISCORD, PySlice(SortByTs(out), f.max))
      ELSE [f EXCEPT !.out = out, !.ch = f.ch + 1]

\* WhatsAppAdapter.fetch_messages: the queue is a stub, every path returns []
WhatsAppFetch(since, max) == Returned(WHATSAPP, <<>>)

\* adapter.fetch_messages(since, max) until it suspends or returns
FetchBegin(platform, since, max) ==
  IF platform = TELEGRAM THEN TelegramFetchBegin(since, max)
  ELSE IF platform = DISCORD THEN DiscordFetchBegin(since, max)
  ELSE WhatsAppFetch(since, max)

\* outcomes of an outbound HTTP call
HttpOutcomes == {"200", "non200", "error"}

\* str(e) of the exception a failed HTTP call of the adapter raises
ErrorMessage(platform) ==
  IF platform = TELEGRAM THEN "telegram: cannot connect"
  ELSE "discord: cannot connect"

\* variant: a status other than 200 raises, as raise_for_status would
NonOk_Raises(f) == { Raised(f.platform, ErrorMessage(f.platform)) }

\* resp.status != 200: Telegram returns out (still empty), Discord continues
\* with the next channel
NonOk(f) ==
  IF f.platform = TELEGRAM THEN { Returned(TELEGRAM, <<>>) }
  ELSE { DiscordNext(f, f.out, FALSE) }

\* the frames a suspended fetch can resume to when its HTTP call ends
\* (the HTTP call of a Telegram frame also changes tg_offset: see OffsetAfter)
HttpResume(f, outcome) ==
  IF f.platform = TELEGRAM THEN
    IF outcome = "error" THEN { Raised(TELEGRAM, ErrorMessage(TELEGRAM)) }
    ELSE IF outcome = "non200" THEN NonOk(f)
    ELSE { Returned(TELEGRAM,
             TelegramLoop(TgGetUpdates(f.offset, f.limit), 1, f.since, f.max,
                          [out |-> <<>>, offset |-> tg_offset]).out) }
  ELSE
    IF outcome = "error" THEN { Raised(DISCORD, ErrorMessage(DISCORD)) }
    ELSE IF outcome = "non200" THEN NonOk(f)
    ELSE { LET out == DiscordLoop(data, 1, f.since, f.out)
           IN  DiscordNext(f, out, Len(out) >= f.max) :
             data \in DcListMessages(dc_channel_ids[f.ch], f.limit, f.since) }

\* variant: one cursor for all adapters, moved by every answered request
OffsetAfter_Shared(f, outcome) ==
  IF outcome = "200"
  THEN IF tg_offset = None THEN 1 ELSE tg_offset + 1
  ELSE tg_offset

\* self._offset after the HTTP call of frame f ended with outcome
OffsetAfter(f, outcome) ==
  IF f.platform = TELEGRAM /\ outcome = "200"
  THEN TelegramLoop(TgGetUpdates(f.offset, f.limit), 1, f.since, f.max,
                    [out |-> <<>>, offset |-> tg_offset]).offset
  ELSE tg_offset

\* what the Bot API has confirmed after serving the request of frame f
ConfirmedAfter(f, outcome) ==
  IF f.platform = TELEGRAM /\ outcome = "200"
  THEN TgConfirm(f.offset) ELSE tg_confirmed

\* the highest update_id any getUpdates response has carried so far
ReceivedAfter(f, outcome) ==
  LET data == TgGetUpdates(f.offset, f.limit)
  IN  IF f.platform = TELEGRAM /\ outcome = "200" /\ data # <<>>
      THEN Max(tg_received, data[Len(data)].update_id)
      ELSE tg_received

(* ----------------------- MessagingGatewayServicer ---------------------- *)

\* __init__: the dict keeps a platform at the position of its first insertion
RECURSIVE ServicerInit(_)
ServicerInit(adapters) ==
  IF adapters = <<>> THEN <<>>
  ELSE LET head == ServicerInit(SubSeq(adapters, 1, Len(adapters) - 1))
           a    == adapters[Len(adapters)]
       IN  IF a \in Range(head) \/ a \notin {TELEGRAM, DISCORD, WHATSAPP}
           THEN head ELSE Append(head, a)

_PLATFORM_MAP(p) ==
  IF p \in {UNSPECIFIED, TELEGRAM, DISCORD, WHATSAPP} THEN p ELSE UNSPECIFIED

\* the test of the for loop of _adapters_for_request
Matches(p) ==
  /\ _PLATFORM_MAP(p) # UNSPECIFIED
  /\ _PLATFORM_MAP(p) \in Range(adapters_by_platform)

\* variant: the filter is ignored
_adapters_for_request_All(platforms) == adapters_by_platform

_adapters_for_request(platforms) ==
  IF platforms = <<>> \/ (Len(platforms) = 1 /\ platforms[1] = UNSPECIFIED)
  THEN adapters_by_platform
  ELSE SelectSeq(platforms, Matches)

NoResp == [status |-> "NONE", details |-> "", messages |-> <<>>]

IdleCall ==
  [pc |-> "idle", platforms |-> <<>>, requested |-> 0, since_ms |-> 0,
   max_messages |-> 0, adapters |-> <<>>, per_adapter |-> 0, idx |-> 0,
   all_messages |-> <<>>, frame |-> NoFrame, resp |-> NoResp,
   \* history of the call
   fetched |-> <<>>,     \* the adapters fetch_messages was called on
   returned |-> 0,       \* how many fetches came back from an HTTP call
   failed |-> <<>>,      \* the adapters whose fetch_messages raised
   pending |-> <<>>,     \* what waited upstream when the call began
   http_ok |-> TRUE,     \* every HTTP status 200
   clean |-> TRUE]       \* upstream unchanged and every HTTP status 200

\* the messages waiting upstream for the adapters of a request, oldest first
Pending(since, adapters) ==
  LET from == IF tg_offset = None THEN tg_confirmed
              ELSE Max(tg_offset, tg_confirmed)
      tg == IF TELEGRAM \in Range(adapters) /\ tg_token
            THEN SelectSeq(tg_updates,
                   LAMBDA u : u.has_msg /\ u.update_id >= from
                              /\ u.date * 1000 > since)
            ELSE <<>>
      dc == IF DISCORD \in Range(adapters) /\ dc_token
            THEN { m \in dc_messages :
                     /\ m.type = 0
                     /\ m.channel_id \in Range(dc_channel_ids)
                     /\ _discord_snowflake_to_ms(m.id) > since }
            ELSE {}
  IN  SortByTs(
        [i \in 1..Len(tg) |->
           UnifiedMessage(TELEGRAM, tg[i].update_id, tg[i].date * 1000)]
        \o [i \in 1..Cardinality(dc) |->
             UnifiedMessage(DISCORD, SeqByIdDesc(dc)[i].id,
                            _discord_snowflake_to_ms(SeqByIdDesc(dc)[i].id))])

\* variant: no slice
Truncate_All(all_messages, max_messages) == all_messages

\* variant: the slice keeps the newest messages
Truncate_Newest(all_messages, max_messages) ==
  SubSeq(all_messages, Max(1, Len(all_messages) - max_messages + 1),
         Len(all_messages))

\* the slice of the response
Truncate(all_messages, max_messages) == PySlice(all_messages, max_messages)

\* return pb.PollMessagesResponse(messages=...) after the sort
Respond(k, all) ==
  [k EXCEPT !.pc = "done", !.frame = NoFrame,
            !.all_messages = SortByTs(all),
            !.resp = [status |-> "OK", details |-> "",
                      messages |-> Truncate(SortByTs(all), k.max_messages)]]

\* variant: the batches fetched before the failure are returned
Fail_Partial(k, err) ==
  [k EXCEPT !.pc = "done", !.frame = NoFrame,
            !.resp = [status |-> "INTERNAL", details |-> err,
                      messages |-> k.all_messages]]

\* the except branch: set_code(INTERNAL), set_details(str(e)), no messages
Fail(k, err) ==
  [k EXCEPT !.pc = "done", !.frame = NoFrame,
            !.resp = [status |-> "INTERNAL", details |-> err,
                      messages |-> <<>>]]

\* variant: every adapter gets the whole budget
PerAdapter_Whole(max_messages, n) == max_messages

\* per_adapter = max(1, max_messages // len(adapters))
PerAdapter(max_messages, n) == Max(1, max_messages \div n)

\* PollMessages up to the first fetch_messages
PollBegin(since, max, platforms) ==
  LET adapters == _adapters_for_request(platforms)
      max_messages == IF max = 0 THEN DEFAULT_MAX_MESSAGES ELSE max
      k == [IdleCall EXCEPT
              !.platforms = platforms, !.requested = max,
              !.since_ms = since, !.max_messages = max_messages,
              !.adapters = adapters,
              !.per_adapter = IF adapters # <<>>
                              THEN PerAdapter(max_messages, Len(adapters))
                              ELSE 0,
              !.pending = Pending(since, adapters)]
  IN  IF adapters = <<>> THEN Respond(k, <<>>)
      ELSE [k EXCEPT !.pc = "call", !.idx = 1]

\* the body of the for loop once fetch_messages has returned or raised
AfterFetch(k, f) ==
  IF f.stage = "raise" THEN Fail(k, f.err)
  ELSE LET all == k.all_messages \o f.out
       IN  IF k.idx = Len(k.adapters) THEN Respond(k, all)
           ELSE [k EXCEPT !.all_messages = all, !.idx = k.idx + 1,
                          !.pc = "call", !.frame = NoFrame]

\* the next adapter of the for loop is called: it suspends on its HTTP call,
\* or returns at once
PollInvoke(c) ==
  /\ call[c].pc = "call"
  /\ LET k == [call[c] EXCEPT
                 !.fetched = Append(@, call[c].adapters[call[c].idx])]
         f == FetchBegin(k.adapters[k.idx], k.since_ms, k.per_adapter)
     IN  call' = [call EXCEPT ![c] =
                    IF f.stage = "http"
                    THEN [k EXCEPT !.pc = "http", !.frame = f]
                    ELSE AfterFetch(k, f)]
  /\ UNCHANGED << config_vars, conversion, tg_offset, tg_received,
                  upstream_vars, stream, agent, health, generator, server,
                  delivered >>

\* the HTTP call of the suspended fetch ends and the handler runs on to its
\* next await
PollHttp(c, outcome) ==
  /\ call[c].pc = "http"
  /\ \E f \in HttpResume(call[c].frame, outcome) :
       LET k == [call[c] EXCEPT
                   !.clean = @ /\ outcome = "200",
                   !.http_ok = @ /\ outcome = "200",
                   !.pending = IF outcome = "200" THEN @ ELSE <<>>,
                   !.failed = IF f.stage = "raise"
                              THEN Append(@, f.platform) ELSE @]
       IN  call' = [call EXCEPT ![c] =
                      IF f.stage = "http" THEN [k EXCEPT !.frame = f]
                      ELSE AfterFetch([k EXCEPT !.returned = @ + 1], f)]
  /\ tg_offset' = OffsetAfter(call[c].frame, outcome)
  /\ tg_confirmed' = ConfirmedAfter(call[c].frame, outcome)
  /\ tg_received' = ReceivedAfter(call[c].frame, outcome)
  /\ UNCHANGED << config_vars, conversion, tg_updates, dc_messages, stream,
                  agent, health, generator, server, delivered >>

\* a client calls PollMessages directly
RpcPoll(since, max, platforms) ==
  /\ call["rpc"].pc = "idle"
  /\ call' = [call EXCEPT !["rpc"] = PollBegin(since, max, platforms)]
  /\ UNCHANGED << config_vars, conversion, tg_offset, tg_received,
                  upstream_vars, stream, agent, health, generator, server,
                  delivered >>

\* the client takes the response
RpcReturn ==
  /\ call["rpc"].pc = "done"
  /\ call' = [call EXCEPT !["rpc"] = IdleCall]
  /\ UNCHANGED << config_vars, conversion, tg_offset, tg_received,
                  upstream_vars, stream, agent, health, generator, server,
                  delivered >>

NoHealth == [ok |-> FALSE, version |-> ""]

\* variant: the default version instead of the configured one
HealthResponse_Default == [ok |-> TRUE, version |-> "0.1.0"]

HealthResponse == [ok |-> TRUE, version |-> version]

Health ==
  /\ health' = HealthResponse
  /\ UNCHANGED << config_vars, conversion, tg_offset, tg_received,
                  upstream_vars, call, stream, agent, generator, server,
                  delivered >>

(* ---------------------------- StreamMessages --------------------------- *)
(* The handler is an async generator.  It is suspended on the HTTP call of *)
(* its fetch ("http"), on a yield ("yield": batch[i] is with gRPC) or on   *)
(* asyncio.sleep(2) ("sleep").  A cancellation by the caller reaches it as *)
(* CancelledError at the await it is suspended on (GeneratorExit at a      *)
(* yield): the server cancels the handler's task, and a cancelled task is   *)
(* resumed with the CancelledError whatever the await has produced.        *)

IdleStream ==
  [pc |-> "idle", platforms |-> <<>>, adapter |-> UNSPECIFIED, since_ms |-> 0,
   batch |-> <<>>, i |-> 0, frame |-> NoFrame, cancelled |-> FALSE,
   raised |-> FALSE,
   \* history: the number of fetch_messages calls so far is odd
   odd_fetches |-> FALSE,
   \* history: the adapters fetch_messages was called on
   fetched |-> {}]

\* variant: the last adapter of the resolved list
StreamAdapter_Last(adapters) == adapters[Len(adapters)]

\* adapter = adapters[0]
StreamAdapter(adapters) == adapters[1]

\* variant: the watermark follows the message yielded last
Watermark_Last(since_ms, m) == m.timestamp_utc_ms

\* if m.timestamp_utc_ms > since_ms: since_ms = m.timestamp_utc_ms
Watermark(since_ms, m) ==
  IF m.timestamp_utc_ms > since_ms THEN m.timestamp_utc_ms ELSE since_ms

\* context.is_active()
IsActive(st) == ~st.cancelled

\* variant: the CancelledError is not caught
OnCancelled_Raises(st) ==
  [st EXCEPT !.pc = "ended", !.frame = NoFrame, !.raised = TRUE]

\* except asyncio.CancelledError: pass
OnCancelled(st) == [st EXCEPT !.pc = "ended", !.frame = NoFrame]

\* the for loop over the batch, up to its first yield, or the sleep behind it
StreamBatch(st, f) ==
  IF f.stage = "raise"
  THEN [st EXCEPT !.pc = "ended", !.frame = NoFrame, !.raised = TRUE]
  ELSE IF f.out = <<>>
  THEN [st EXCEPT !.pc = "sleep", !.frame = NoFrame, !.batch = <<>>, !.i = 0]
  ELSE [st EXCEPT !.pc = "yield", !.frame = NoFrame, !.batch = f.out, !.i = 1]

\* the head of the while loop, up to the next await
StreamLoop(st) ==
  IF ~IsActive(st) THEN [st EXCEPT !.pc = "ended", !.frame = NoFrame]
  ELSE LET f  == FetchBegin(st.adapter, st.since_ms, STREAM_MAX_MESSAGES)
           s1 == [st EXCEPT !.odd_fetches = ~@,
                            !.fetched = @ \cup {st.adapter}]
       IN  IF f.stage = "http" THEN [s1 EXCEPT !.pc = "http", !.frame = f]
           ELSE StreamBatch(s1, f)

\* a client opens the stream
StreamOpen(platforms) ==
  /\ stream.pc = "idle"
  /\ LET adapters == _adapters_for_request(platforms)
     IN  stream' = IF adapters = <<>>
                   THEN [stream EXCEPT !.pc = "ended", !.platforms = platforms]
                   ELSE StreamLoop([stream EXCEPT
                                      !.platforms = platforms,
                                      !.adapter = StreamAdapter(adapters),
                                      !.since_ms = 0])
  /\ UNCHANGED << config_vars, conversion, tg_offset, tg_received,
                  upstream_vars, call, agent, health, generator, server,
                  delivered >>

\* the HTTP call of the stream's fetch ends
StreamHttp(outcome) ==
  /\ stream.pc = "http"
  /\ ~stream.cancelled
  /\ \E f \in HttpResume(stream.frame, outcome) :
       stream' = IF f.stage = "http" THEN [stream EXCEPT !.frame = f]
                 ELSE StreamBatch(stream, f)
  /\ tg_offset' = OffsetAfter(stream.frame, outcome)
  /\ tg_confirmed' = ConfirmedAfter(stream.frame, outcome)
  /\ tg_received' = ReceivedAfter(stream.frame, outcome)
  /\ UNCHANGED << config_vars, conversion, tg_updates, dc_messages, call,
                  agent, health, generator, server, delivered >>

\* gRPC has written batch[i]; the generator runs on to its next yield or sleep
StreamYield ==
  /\ stream.pc = "yield"
  /\ ~stream.cancelled
  /\ LET m == stream.batch[stream.i]
         since == Watermark(stream.since_ms, m)
     IN  /\ stream' = IF stream.i < Len(stream.batch)
                      THEN [stream EXCEPT !.since_ms = since, !.i = @ + 1]
                      ELSE [stream EXCEPT !.since_ms = since, !.pc = "sleep"]
         /\ delivered' = [delivered EXCEPT !["stream"] = @ \cup {m}]
  /\ UNCHANGED << config_vars, conversion, tg_offset, tg_received,
                  upstream_vars, call, agent, health, generator, server >>

\* asyncio.sleep(2) returns
StreamWake ==
  /\ stream.pc = "sleep"
  /\ ~stream.cancelled
  /\ stream' = StreamLoop(stream)
  /\ UNCHANGED << config_vars, conversion, tg_offset, tg_received,
                  upstream_vars, call, agent, health, generator, server,
                  delivered >>

\* the caller cancels the RPC
StreamCancel ==
  /\ stream.pc \in {"http", "yield", "sleep"}
  /\ ~stream.cancelled
  /\ stream' = [stream EXCEPT !.cancelled = TRUE]
  /\ UNCHANGED << config_vars, conversion, tg_offset, tg_received,
                  upstream_vars, call, agent, health, generator, server,
                  delivered >>

\* the cancellation is raised at the await the handler is suspended on
StreamCancelled ==
  /\ stream.pc \in {"http", "yield", "sleep"}
  /\ stream.cancelled
  /\ stream' = OnCancelled(stream)
  /\ UNCHANGED << config_vars, conversion, tg_offset, tg_received,
                  upstream_vars, call, agent, health, generator, server,
                  delivered >>

(* ---------------------------- run_agent_loop --------------------------- *)

IdleAgent ==
  [pc |-> "start", since_ms |-> 0,
   cancelled |-> FALSE,   \* task.cancel() was called
   closed |-> FALSE,      \* channel.close() has run
   outcome |-> "none",    \* how the task ended: "returned" or "cancelled"
   \* history: every HTTP call of every poll so far had status 200
   upstream_ok |-> TRUE,
   \* history: the poll before this sleep ended with an RpcError
   rpc_error |-> FALSE]

\* variant: the watermark follows the first message of the response
Advance_First(since_ms, messages) ==
  IF messages = <<>> THEN since_ms ELSE messages[1].timestamp_utc_ms

\* the for loop over resp.messages, as far as since_ms goes
RECURSIVE Advance(_, _)
Advance(since_ms, messages) ==
  IF messages = <<>> THEN since_ms
  ELSE Advance(IF messages[1].timestamp_utc_ms > since_ms
               THEN messages[1].timestamp_utc_ms ELSE since_ms,
               SubSeq(messages, 2, Len(messages)))

\* variant: the RpcError is not caught, the finally closes the channel
OnRpcError_Crash(a) ==
  [a EXCEPT !.pc = "ended", !.closed = TRUE, !.outcome = "raised",
            !.rpc_error = TRUE]

\* except grpc.RpcError: log, then await asyncio.sleep(poll_interval_seconds)
OnRpcError(a) == [a EXCEPT !.pc = "sleep", !.rpc_error = TRUE]

\* except asyncio.CancelledError: break; finally: channel.close(); the
\* coroutine returns
OnCancelledInTry(a) ==
  [a EXCEPT !.pc = "ended", !.closed = TRUE, !.outcome = "returned"]

\* CancelledError out of asyncio.sleep, outside the inner try: the finally
\* closes the channel and the error leaves the coroutine
OnCancelledInSleep(a) ==
  [a EXCEPT !.pc = "ended", !.closed = TRUE, !.outcome = "cancelled"]

\* the loop sends its next PollMessagesRequest
AgentPoll ==
  /\ agent.pc \in {"start", "sleep"}
  /\ ~agent.cancelled
  /\ call["agent"].pc = "idle"
  /\ call' = [call EXCEPT !["agent"] =
                PollBegin(agent.since_ms, max_messages_per_poll, <<>>)]
  /\ agent' = [agent EXCEPT !.pc = "wait", !.rpc_error = FALSE]
  /\ UNCHANGED << config_vars, conversion, tg_offset, tg_received,
                  upstream_vars, stream, health, generator, server,
                  delivered >>

\* the loop sends its next request and the gateway cannot be reached: no
\* handler runs
AgentPollUnavailable ==
  /\ agent.pc \in {"start", "sleep"}
  /\ ~agent.cancelled
  /\ call["agent"].pc = "idle"
  /\ agent' = [agent EXCEPT !.pc = "wait", !.rpc_error = FALSE]
  /\ UNCHANGED << config_vars, conversion, tg_offset, tg_received,
                  upstream_vars, call, stream, health, generator, server,
                  delivered >>

\* stub.PollMessages raises RpcError UNAVAILABLE
AgentRpcError ==
  /\ agent.pc = "wait"
  /\ ~agent.cancelled
  /\ call["agent"].pc = "idle"
  /\ agent' = OnRpcError(agent)
  /\ UNCHANGED << config_vars, conversion, tg_offset, tg_received,
                  upstream_vars, call, stream, health, generator, server,
                  delivered >>

\* stub.PollMessages returns or raises RpcError; the loop goes to sleep
AgentReceive ==
  /\ agent.pc = "wait"
  /\ ~agent.cancelled
  /\ call["agent"].pc = "done"
  /\ LET resp == call["agent"].resp
     IN  IF resp.status = "OK"
         THEN /\ agent' = [agent EXCEPT !.pc = "sleep",
                             !.since_ms = Advance(@, resp.messages),
                             !.upstream_ok = @ /\ call["agent"].http_ok,
                             !.rpc_error = FALSE]
              /\ delivered' = [delivered EXCEPT !["agent"] =
                                 @ \cup Range(resp.messages)]
         ELSE /\ agent' = OnRpcError([agent EXCEPT
                             !.upstream_ok = @ /\ call["agent"].http_ok])
              /\ UNCHANGED delivered
  /\ call' = [call EXCEPT !["agent"] = IdleCall]
  /\ UNCHANGED << config_vars, conversion, tg_offset, tg_received,
                  upstream_vars, stream, health, generator, server >>

\* the task of the loop is cancelled (SIGINT, SIGTERM, a test)
AgentCancel ==
  /\ agent.pc \in {"wait", "sleep"}
  /\ ~agent.cancelled
  /\ agent' = [agent EXCEPT !.cancelled = TRUE]
  /\ UNCHANGED << config_vars, conversion, tg_offset, tg_received,
                  upstream_vars, call, stream, health, generator, server,
                  delivered >>

\* the CancelledError is raised inside the inner try: at the await of
\* stub.PollMessages (j = 0), which also cancels the handler of the call, or,
\* the response received, at the await of _process_message for message j
AgentCancelledInTry ==
  /\ agent.pc = "wait"
  /\ agent.cancelled
  /\ LET resp == call["agent"].resp
         n == IF call["agent"].pc = "done" /\ resp.status = "OK"
              THEN Len(resp.messages) ELSE 0
     IN  \E j \in 0..n :
           /\ agent' = OnCancelledInTry([agent EXCEPT !.since_ms =
                         Advance(@, SubSeq(resp.messages, 1, j))])
           /\ delivered' = [delivered EXCEPT !["agent"] =
                              @ \cup Range(SubSeq(resp.messages, 1, j))]
  /\ call' = [call EXCEPT !["agent"] = IdleCall]
  /\ UNCHANGED << config_vars, conversion, tg_offset, tg_received,
                  upstream_vars, stream, health, generator, server >>

\* the CancelledError is raised at asyncio.sleep(poll_interval_seconds)
AgentCancelledInSleep ==
  /\ agent.pc = "sleep"
  /\ agent.cancelled
  /\ agent' = OnCancelledInSleep(agent)
  /\ UNCHANGED << config_vars, conversion, tg_offset, tg_received,
                  upstream_vars, call, stream, health, generator, server,
                  delivered >>

(* ------------------- MessageAdapter.stream_messages -------------------- *)
(* The default generator over an adapter whose fetch_messages is abstract: *)
(* a fetch may return any batch.  The generator is suspended on the fetch  *)
(* ("fetch"), on a yield ("yield": batch[i] is with the consumer) or on    *)
(* asyncio.sleep(5) ("sleep").                                             *)

BACKOFF_MAX_MESSAGES == 50

\* what an implementation of fetch_messages may return
RECURSIVE SeqsUpTo(_, _)
SeqsUpTo(S, n) ==
  IF n = 0 THEN { <<>> }
  ELSE LET shorter == SeqsUpTo(S, n - 1)
       IN  shorter \cup { Append(q, x) : q \in shorter, x \in S }

Batches ==
  SeqsUpTo({ UnifiedMessage(TELEGRAM, 1, date * 1000) : date \in TgDates },
           MaxBatch)

IdleGenerator ==
  [pc |-> "idle", since_ms |-> 0, batch |-> <<>>, i |-> 0,
   \* history: the messages yielded, in order
   yielded |-> <<>>,
   \* history: since and max of every fetch_messages call, the batch it
   \* returned, whether asyncio.sleep(5) followed it
   fetches |-> <<>>]

\* if msg.timestamp_utc_ms > since_ms: since_ms = msg.timestamp_utc_ms
SeenTimestamp(since_ms, msg) ==
  IF msg.timestamp_utc_ms > since_ms THEN msg.timestamp_utc_ms ELSE since_ms

\* variant: the backoff follows every batch
Backoff_Always(batch) == TRUE

\* if not batch: await asyncio.sleep(5)
Backoff(batch) == batch = <<>>

\* await self.fetch_messages(since_timestamp_utc_ms=since_ms, max_messages=50)
GeneratorFetch(g) ==
  [g EXCEPT !.pc = "fetch", !.batch = <<>>, !.i = 0,
            !.fetches = Append(@, [since |-> g.since_ms,
                                   max |-> BACKOFF_MAX_MESSAGES,
                                   batch |-> <<>>, returned |-> FALSE,
                                   slept |-> FALSE])]

\* the end of the for loop over the batch
GeneratorAfterBatch(g) ==
  IF Backoff(g.batch)
  THEN [g EXCEPT !.pc = "sleep",
                 !.fetches[Len(g.fetches)].slept = TRUE]
  ELSE GeneratorFetch(g)

\* the consumer asks for the first message: since_ms = 0 and the first fetch
GeneratorStart ==
  /\ generator.pc = "idle"
  /\ generator' = GeneratorFetch(generator)
  /\ UNCHANGED << config_vars, conversion, tg_offset, tg_received,
                  upstream_vars, call, stream, agent, health, server,
                  delivered >>

\* fetch_messages returns a batch; its first message is yielded, or the for
\* loop has nothing to do
GeneratorFetched(batch) ==
  /\ generator.pc = "fetch"
  /\ LET g == [generator EXCEPT
                 !.batch = batch,
                 !.fetches[Len(generator.fetches)].batch = batch,
                 !.fetches[Len(generator.fetches)].returned = TRUE]
     IN  generator' =
           IF batch # <<>>
           THEN [g EXCEPT !.pc = "yield", !.i = 1,
                          !.yielded = Append(@, batch[1])]
           ELSE GeneratorAfterBatch(g)
  /\ UNCHANGED << config_vars, conversion, tg_offset, tg_received,
                  upstream_vars, call, stream, agent, health, server,
                  delivered >>

\* the consumer asks for the next message: the generator resumes after its
\* yield, advances since_ms and goes on to its next suspension
GeneratorResume ==
  /\ generator.pc = "yield"
  /\ Len(generator.fetches) < MaxFetches \/ generator.i < Len(generator.batch)
  /\ LET g == [generator EXCEPT !.since_ms =
                 SeenTimestamp(@, generator.batch[generator.i])]
     IN  generator' =
           IF g.i < Len(g.batch)
           THEN [g EXCEPT !.i = @ + 1,
                          !.yielded = Append(@, g.batch[g.i + 1])]
           ELSE GeneratorAfterBatch(g)
  /\ UNCHANGED << config_vars, conversion, tg_offset, tg_received,
                  upstream_vars, call, stream, agent, health, server,
                  delivered >>

\* asyncio.sleep(5) is over
GeneratorWake ==
  /\ generator.pc = "sleep"
  /\ Len(generator.fetches) < MaxFetches
  /\ generator' = GeneratorFetch(generator)
  /\ UNCHANGED << config_vars, conversion, tg_offset, tg_received,
                  upstream_vars, call, stream, agent, health, server,
                  delivered >>

\* the consumer leaves its async for (break): the generator is closed at the
\* yield it is suspended on
GeneratorClose ==
  /\ generator.pc = "yield"
  /\ generator' = [generator EXCEPT !.pc = "closed"]
  /\ UNCHANGED << config_vars, conversion, tg_offset, tg_received,
                  upstream_vars, call, stream, agent, health, server,
                  delivered >>

(* ------------------------- the gateway process ------------------------- *)
(* main() of gateway.py and of gateway/__main__.py, which read the same    *)
(* environment variables the same way, and run_server.                     *)

\* a value of an environment variable: its text in lower case without the
\* surrounding blanks, whether it was written in upper case, whether blanks
\* surround it; an unset variable reads as the default ""
EnvValues ==
  [text : {"", "1", "true", "yes", "0", "on"}, upper : BOOLEAN,
   padded : BOOLEAN]

\* str.strip().lower()
StripLower(v) == [v EXCEPT !.upper = FALSE, !.padded = FALSE]

EnvText(text) == [text |-> text, upper |-> FALSE, padded |-> FALSE]

\* os.environ.get("GATEWAY_TLS", "").strip().lower() in ("1", "true", "yes")
UseTls(v) == StripLower(v) \in { EnvText("1"), EnvText("true"), EnvText("yes") }

NoServer ==
  [pc |-> "none", GATEWAY_TLS |-> EnvText(""), cert_file |-> FALSE,
   key_file |-> FALSE, readable |-> FALSE, use_tls |-> FALSE,
   server_credentials |-> FALSE, port |-> "none"]

\* the process is started in some environment: GATEWAY_TLS, whether
\* GATEWAY_TLS_CERT_FILE and GATEWAY_TLS_KEY_FILE are set (non-empty),
\* whether the files they name can be read
Started ==
  { [NoServer EXCEPT !.pc = "main", !.GATEWAY_TLS = v, !.cert_file = c,
                     !.key_file = k, !.readable = r] :
      v \in EnvValues, c \in BOOLEAN, k \in BOOLEAN, r \in BOOLEAN }

\* main reads GATEWAY_TLS
MainConfig ==
  /\ server.pc = "main"
  /\ server' = [server EXCEPT !.pc = "config",
                              !.use_tls = UseTls(server.GATEWAY_TLS)]
  /\ UNCHANGED << config_vars, conversion, tg_offset, tg_received,
                  upstream_vars, call, stream, agent, health, generator,
                  delivered >>

\* main loads the certificate and the key when use_tls and both paths are
\* set; open() raises when a file cannot be read and the process ends
MainCredentials ==
  /\ server.pc = "config"
  /\ server' =
       IF server.use_tls /\ server.cert_file /\ server.key_file
       THEN IF server.readable
            THEN [server EXCEPT !.pc = "serve", !.server_credentials = TRUE]
            ELSE [server EXCEPT !.pc = "failed"]
       ELSE [server EXCEPT !.pc = "serve"]
  /\ UNCHANGED << config_vars, conversion, tg_offset, tg_received,
                  upstream_vars, call, stream, agent, health, generator,
                  delivered >>

\* if use_tls and server_credentials is not None: add_secure_port
\* else: add_insecure_port
Port(use_tls, server_credentials) ==
  IF use_tls /\ server_credentials THEN "secure" ELSE "insecure"

\* serve() awaits run_server, which binds the port and starts the server
RunServer ==
  /\ server.pc = "serve"
  /\ server' = [server EXCEPT
                  !.pc = "listening",
                  !.port = Port(server.use_tls, server.server_credentials)]
  /\ UNCHANGED << config_vars, conversion, tg_offset, tg_received,
                  upstream_vars, call, stream, agent, health, generator,
                  delivered >>

\* the process is stopped (Ctrl+C)
Shutdown ==
  /\ server.pc = "listening"
  /\ server' = [server EXCEPT !.pc = "stopped"]
  /\ UNCHANGED << config_vars, conversion, tg_offset, tg_received,
                  upstream_vars, call, stream, agent, health, generator,
                  delivered >>


(* ---------------- Discord ids at their real magnitude ------------------ *)
(* Python integers are unbounded: a timestamp of today is above 2^40 and a *)
(* snowflake above 2^60.  Here a natural number is the sequence of its     *)
(* digits in base 2^22, the lowest first, without leading zeros (<<>> is   *)
(* 0), so that << 22 and >> 22 move whole digits.  An id travels as the    *)
(* text of its decimal digits, the highest first.                          *)

LIMB == Pow2(SNOWFLAKE_SHIFT)

Rest(a) == IF a = <<>> THEN <<>> ELSE Tail(a)
Low(a) == IF a = <<>> THEN 0 ELSE Head(a)

RECURSIVE Normal(_)
Normal(a) ==
  IF a # <<>> /\ a[Len(a)] = 0 THEN Normal(SubSeq(a, 1, Len(a) - 1)) ELSE a

\* a + b + carry
RECURSIVE BigAdd(_, _, _)
BigAdd(a, b, carry) ==
  IF a = <<>> /\ b = <<>>
  THEN IF carry = 0 THEN <<>> ELSE << carry >>
  ELSE LET x == Low(a) + Low(b) + carry
       IN  << x % LIMB >> \o BigAdd(Rest(a), Rest(b), x \div LIMB)

\* a - b - borrow, for a >= b + borrow
RECURSIVE BigSub(_, _, _)
BigSub(a, b, borrow) ==
  IF a = <<>> THEN <<>>
  ELSE LET x == Low(a) - Low(b) - borrow
       IN  << x % LIMB >>
             \o BigSub(Rest(a), Rest(b), IF x < 0 THEN 1 ELSE 0)

\* a * m + c for a small m
RECURSIVE BigScale(_, _, _)
BigScale(a, m, c) ==
  IF a = <<>>
  THEN IF c = 0 THEN <<>> ELSE << c >>
  ELSE LET x == Head(a) * m + c
       IN  << x % LIMB >> \o BigScale(Tail(a), m, x \div LIMB)

\* quotient and remainder of (r * LIMB^Len(a) + a) by a small m
RECURSIVE BigDivide(_, _, _)
BigDivide(a, m, r) ==
  IF a = <<>> THEN [q |-> <<>>, r |-> r]
  ELSE LET x == r * LIMB + a[Len(a)]
           low == BigDivide(SubSeq(a, 1, Len(a) - 1), m, x % m)
       IN  [q |-> Append(low.q, x \div m), r |-> low.r]

\* a < b
RECURSIVE BigLess(_, _)
BigLess(a, b) ==
  IF Len(a) # Len(b) THEN Len(a) < Len(b)
  ELSE IF a = <<>> THEN FALSE
  ELSE IF a[Len(a)] # b[Len(b)] THEN a[Len(a)] < b[Len(b)]
  ELSE BigLess(SubSeq(a, 1, Len(a) - 1), SubSeq(b, 1, Len(b) - 1))

\* int(text) for a text of decimal digits
RECURSIVE ParseInt(_)
ParseInt(digits) ==
  IF digits = <<>> THEN <<>>
  ELSE BigScale(ParseInt(SubSeq(digits, 1, Len(digits) - 1)), 10,
                digits[Len(digits)])

\* str(n) for n >= 0
RECURSIVE Digits(_)
Digits(a) ==
  IF a = <<>> THEN <<>>
  ELSE LET d == BigDivide(a, 10, 0)
       IN  Append(Digits(Normal(d.q)), d.r)

Str(a) == IF a = <<>> THEN << 0 >> ELSE Digits(a)

\* 1420070400000
DISCORD_EPOCH_MS == ParseInt(<< 1, 4, 2, 0, 0, 7, 0, 4, 0, 0, 0, 0, 0 >>)

ShiftLeft22(a) == IF a = <<>> THEN <<>> ELSE << 0 >> \o a
ShiftRight22(a) == Rest(a)

\* variant: the epoch is not added back
snowflake_to_ms_Raw(snowflake) == ShiftRight22(ParseInt(snowflake))

\* (int(snowflake) >> 22) + 1420070400000
snowflake_to_ms(snowflake) ==
  BigAdd(ShiftRight22(ParseInt(snowflake)), DISCORD_EPOCH_MS, 0)

\* str((ms - 1420070400000) << 22), for ms >= 1420070400000
ms_to_snowflake(ms) ==
  Str(ShiftLeft22(Normal(BigSub(ms, DISCORD_EPOCH_MS, 0))))

\* the timestamps converted: the epoch, 1700000000000, the places where a
\* base 2^22 digit of ms or of ms - epoch runs over, each with the values
\* that follow it
Offsets == 0..MaxOffset

Timestamps ==
  LET base == { DISCORD_EPOCH_MS,
                ParseInt(<< 1, 7, 0, 0, 0, 0, 0, 0, 0, 0, 0, 0, 0 >>),
                \* epoch + 2^22 - 1
                BigAdd(DISCORD_EPOCH_MS, << LIMB - 1 >>, 0),
                \* the last ms before the second digit of ms runs over
                << LIMB - 1, DISCORD_EPOCH_MS[2] >>,
                \* epoch + 2^44 - 2^22 - 1
                BigAdd(DISCORD_EPOCH_MS, << LIMB - 1, LIMB - 2 >>, 0) }
  IN  { BigAdd(t, IF k = 0 THEN <<>> ELSE << k >>, 0) :
          t \in base, k \in Offsets }

NoConversion == [pc |-> "none", ms |-> <<>>, snowflake |-> <<>>, back |-> <<>>]

\* a timestamp is chosen
ConversionPick(ms) ==
  /\ conversion.pc \in {"none", "back"}
  /\ conversion' = [NoConversion EXCEPT !.pc = "ms", !.ms = ms]
  /\ UNCHANGED << config_vars, tg_offset, tg_received, upstream_vars, call,
                  stream, agent, health, generator, server, delivered >>

\* _ms_to_discord_snowflake(ms)
ConversionToSnowflake ==
  /\ conversion.pc = "ms"
  /\ conversion' = [conversion EXCEPT
                      !.pc = "snowflake",
                      !.snowflake = ms_to_snowflake(conversion.ms)]
  /\ UNCHANGED << config_vars, tg_offset, tg_received, upstream_vars, call,
                  stream, agent, health, generator, server, delivered >>

\* _discord_snowflake_to_ms(snowflake)
ConversionToMs ==
  /\ conversion.pc = "snowflake"
  /\ conversion' = [conversion EXCEPT
                      !.pc = "back",
                      !.back = snowflake_to_ms(conversion.snowflake)]
  /\ UNCHANGED << config_vars, tg_offset, tg_received, upstream_vars, call,
                  stream, agent, health, generator, server, delivered >>

(* --------------------------- specifications ---------------------------- *)

\* the state once the servicer is constructed over one of the adapter lists
\* and with one of the versions
Constructed(lists, versions) ==
  /\ adapters_by_platform \in { ServicerInit(a) : a \in lists }
  /\ version \in versions
  /\ tg_token \in { b \in BOOLEAN : b => TELEGRAM \in Range(adapters_by_platform) }
  /\ dc_token \in { b \in BOOLEAN : b => DISCORD \in Range(adapters_by_platform) }
  /\ dc_channel_ids \in { l \in ChannelLists : l # <<>> => dc_token }
  /\ wa_creds = FALSE
  /\ tg_offset = None
  /\ tg_received = 0
  /\ tg_updates = <<>>
  /\ tg_confirmed = 0
  /\ dc_messages = {}
  /\ call = [c \in PollIds |-> IdleCall]
  /\ stream = IdleStream
  /\ agent = IdleAgent
  /\ health = NoHealth
  /\ generator = IdleGenerator
  /\ server = NoServer
  /\ conversion = NoConversion
  /\ delivered = [c \in {"agent", "stream"} |-> {}]

Init == Constructed(AdapterLists, {"0.1.0"})

Upstream ==
  \/ \E date \in TgDates \cup {0} : TelegramUpdate(date)
  \/ \E ch \in Range(dc_channel_ids), hi \in DcHighBits, type \in {0, 7} :
       (type = 7 => hi = 2) /\ DiscordPost(ch, hi, type)

\* direct PollMessages callers
Next ==
  \/ Upstream
  \/ \E since \in RpcSince, max \in Requested, platforms \in PlatformFilters :
       RpcPoll(since, max, platforms)
  \/ PollInvoke("rpc")
  \/ \E outcome \in HttpOutcomes : PollHttp("rpc", outcome)
  \/ RpcReturn

Spec == Init /\ [][Next]_vars

\* the polling consumer
NextAgent ==
  \/ Upstream
  \/ AgentPoll
  \/ PollInvoke("agent")
  \/ \E outcome \in HttpOutcomes : PollHttp("agent", outcome)
  \/ AgentReceive
  \/ AgentPollUnavailable
  \/ AgentRpcError
  \/ AgentCancel
  \/ AgentCancelledInTry
  \/ AgentCancelledInSleep

SpecAgent == Init /\ [][NextAgent]_vars

\* the consumer alone over a gateway with the Telegram adapter
InitRetry ==
  /\ adapters_by_platform = ServicerInit(<<TELEGRAM>>)
  /\ version = "0.1.0"
  /\ tg_token = TRUE
  /\ dc_token = FALSE
  /\ dc_channel_ids = <<>>
  /\ wa_creds = FALSE
  /\ tg_offset = None
  /\ tg_received = 0
  /\ tg_updates = <<>>
  /\ tg_confirmed = 0
  /\ dc_messages = {}
  /\ call = [c \in PollIds |-> IdleCall]
  /\ stream = IdleStream
  /\ agent = IdleAgent
  /\ health = NoHealth
  /\ generator = IdleGenerator
  /\ server = NoServer
  /\ conversion = NoConversion
  /\ delivered = [c \in {"agent", "stream"} |-> {}]

NextRetry ==
  \/ \E date \in TgDates : TelegramUpdate(date)
  \/ AgentPoll
  \/ PollInvoke("agent")
  \/ \E outcome \in HttpOutcomes : PollHttp("agent", outcome)
  \/ AgentReceive
  \/ AgentPollUnavailable
  \/ AgentRpcError
  \/ AgentCancel
  \/ AgentCancelledInTry
  \/ AgentCancelledInSleep

\* the consumer's event loop runs a task that is ready: the loop polls again
\* after its sleep, a cancellation is delivered
SpecRetry ==
  /\ InitRetry
  /\ [][NextRetry]_vars
  /\ WF_vars(AgentPoll \/ AgentPollUnavailable)
  /\ WF_vars(AgentCancelledInSleep)

\* a streaming caller
NextStream ==
  \/ Upstream
  \/ \E platforms \in PlatformFilters : StreamOpen(platforms)
  \/ \E outcome \in HttpOutcomes : StreamHttp(outcome)
  \/ StreamYield
  \/ StreamWake
  \/ StreamCancel
  \/ StreamCancelled

SpecStream == Init /\ [][NextStream]_vars

\* direct PollMessages callers over Telegram and a Discord adapter with two
\* channels
InitChannels ==
  /\ adapters_by_platform = ServicerInit(<<TELEGRAM, DISCORD>>)
  /\ version = "0.1.0"
  /\ tg_token = TRUE
  /\ dc_token = TRUE
  /\ dc_channel_ids = <<1, 2>>
  /\ wa_creds = FALSE
  /\ tg_offset = None
  /\ tg_received = 0
  /\ tg_updates = <<>>
  /\ tg_confirmed = 0
  /\ dc_messages = {}
  /\ call = [c \in PollIds |-> IdleCall]
  /\ stream = IdleStream
  /\ agent = IdleAgent
  /\ health = NoHealth
  /\ generator = IdleGenerator
  /\ server = NoServer
  /\ conversion = NoConversion
  /\ delivered = [c \in {"agent", "stream"} |-> {}]

NextChannels ==
  \/ TelegramUpdate(2)
  \/ \E ch \in Range(dc_channel_ids), hi \in DcHighBits, type \in {0, 7} :
       (type = 7 => hi = 2) /\ DiscordPost(ch, hi, type)
  \/ \E since \in RpcSince, max \in Requested : RpcPoll(since, max, <<>>)
  \/ PollInvoke("rpc")
  \/ \E outcome \in HttpOutcomes : PollHttp("rpc", outcome)
  \/ RpcReturn

SpecChannels == InitChannels /\ [][NextChannels]_vars

\* a consumer of the default stream_messages of an adapter
NextGenerator ==
  \/ GeneratorStart
  \/ \E batch \in Batches : GeneratorFetched(batch)
  \/ GeneratorResume
  \/ GeneratorWake
  \/ GeneratorClose

InitGenerator == Constructed({ <<>> }, {"0.1.0"})

SpecGenerator == InitGenerator /\ [][NextGenerator]_vars

\* the start of the gateway process
InitServer ==
  /\ adapters_by_platform = ServicerInit(<<TELEGRAM, DISCORD, WHATSAPP>>)
  /\ version = "0.1.0"
  /\ tg_token = FALSE
  /\ dc_token = FALSE
  /\ dc_channel_ids = <<>>
  /\ wa_creds = FALSE
  /\ tg_offset = None
  /\ tg_received = 0
  /\ tg_updates = <<>>
  /\ tg_confirmed = 0
  /\ dc_messages = {}
  /\ call = [c \in PollIds |-> IdleCall]
  /\ stream = IdleStream
  /\ agent = IdleAgent
  /\ health = NoHealth
  /\ generator = IdleGenerator
  /\ server \in Started
  /\ conversion = NoConversion
  /\ delivered = [c \in {"agent", "stream"} |-> {}]

NextServer ==
  \/ MainConfig
  \/ MainCredentials
  \/ RunServer
  \/ Shutdown

SpecServer == InitServer /\ [][NextServer]_vars

\* timestamps taken to Discord ids and back
NextConversion ==
  \/ \E ms \in Timestamps : ConversionPick(ms)
  \/ ConversionToSnowflake
  \/ ConversionToMs

SpecConversion == InitGenerator /\ [][NextConversion]_vars

\* a direct PollMessages caller over both adapters or over Discord alone,
\* beside a stream over Discord and Health callers
InitShared ==
  /\ adapters_by_platform = ServicerInit(<<TELEGRAM, DISCORD>>)
  /\ version = "0.1.0"
  /\ tg_token = TRUE
  /\ dc_token = TRUE
  /\ dc_channel_ids = <<1>>
  /\ wa_creds = FALSE
  /\ tg_offset = None
  /\ tg_received = 0
  /\ tg_updates = <<>>
  /\ tg_confirmed = 0
  /\ dc_messages = {}
  /\ call = [c \in PollIds |-> IdleCall]
  /\ stream = IdleStream
  /\ agent = IdleAgent
  /\ health = NoHealth
  /\ generator = IdleGenerator
  /\ server = NoServer
  /\ conversion = NoConversion
  /\ delivered = [c \in {"agent", "stream"} |-> {}]

NextShared ==
  \/ \E date \in TgDates : TelegramUpdate(date)
  \/ \E hi \in DcHighBits : DiscordPost(1, hi, 0)
  \/ \E platforms \in { <<>>, <<DISCORD>> } :
       RpcPoll(0, MaxRequested, platforms)
  \/ PollInvoke("rpc")
  \/ \E outcome \in HttpOutcomes : PollHttp("rpc", outcome)
  \/ RpcReturn
  \/ StreamOpen(<<DISCORD>>)
  \/ \E outcome \in HttpOutcomes : StreamHttp(outcome)
  \/ StreamYield
  \/ StreamWake
  \/ Health

SpecShared == InitShared /\ [][NextShared]_vars

\* Health callers beside the consumer and a stream, over no adapter or
\* Telegram, the service configured with a version of its own
InitHealth == Constructed({ <<>>, <<TELEGRAM>> }, Versions \ {"0.1.0"})

NextHealth ==
  \/ \E date \in TgDates \cup {0} : TelegramUpdate(date)
  \/ AgentPoll
  \/ PollInvoke("agent")
  \/ \E outcome \in HttpOutcomes : PollHttp("agent", outcome)
  \/ AgentReceive
  \/ StreamOpen(<<>>)
  \/ \E outcome \in HttpOutcomes : StreamHttp(outcome)
  \/ StreamYield
  \/ StreamWake
  \/ StreamCancel
  \/ StreamCancelled
  \/ Health

SpecHealth == InitHealth /\ [][NextHealth]_vars

\* the streaming caller, its cancellation delivered whenever it is pending
SpecStreamFair ==
  SpecStream /\ WF_vars(StreamCancelled)

(* ------------------------------ properties ----------------------------- *)

TsOf(s) == [i \in 1..Len(s) |-> s[i].timestamp_utc_ms]

IsSorted(ts) == \A i \in 1..Len(ts), j \in 1..Len(ts) : i < j => ts[i] <= ts[j]

Done(c) == call[c].pc = "done"

Ok(c) == call[c].pc = "done" /\ call[c].resp.status = "OK"

\* C1: the messages of every PollMessages response are in non-decreasing
\* timestamp_utc_ms order, whatever the adapters and the order of the batches.
C1_Ordered ==
  \A c \in PollIds : Done(c) => IsSorted(TsOf(call[c].resp.messages))

\* a response that carries a Discord message before a younger Telegram one,
\* although the Telegram adapter was fetched first
C1_Witness ==
  /\ Ok("rpc")
  /\ call["rpc"].fetched # <<>>
  /\ call["rpc"].fetched[1] = TELEGRAM
  /\ Len(call["rpc"].resp.messages) >= 2
  /\ call["rpc"].resp.messages[1].platform = DISCORD
  /\ call["rpc"].resp.messages[2].platform = TELEGRAM
  /\ call["rpc"].resp.messages[1].timestamp_utc_ms
       < call["rpc"].resp.messages[2].timestamp_utc_ms

\* the cap of a request: max_messages, or 100 when it is unset or zero
Cap(k) == IF k.requested = 0 THEN 100 ELSE k.requested

\* C2: a PollMessages response never has more messages than the cap of the
\* request, which is max_messages, or 100 when max_messages is unset or zero.
C2_Capped ==
  \A c \in PollIds :
    Done(c) => /\ Len(call[c].resp.messages) <= Cap(call[c])
               /\ call[c].max_messages = Cap(call[c])

\* two messages were fetched for a request of one, and one is returned
C2_Witness ==
  /\ Ok("rpc")
  /\ call["rpc"].requested = 1
  /\ Len(call["rpc"].all_messages) = 2
  /\ Len(call["rpc"].resp.messages) = 1

\* C3: at-least-once delivery.  Once the consumer has taken a response, and
\* every upstream call so far has succeeded, every message the Telegram
\* adapter has moved its offset past (the upstream handed it over and will
\* not hand it over again) has been in a successful PollMessages response.
C3_AtLeastOnce ==
  (agent.pc = "sleep" /\ agent.upstream_ok) =>
    \A i \in 1..Len(tg_updates) :
      (tg_updates[i].has_msg /\ tg_offset # None
         /\ tg_updates[i].update_id < tg_offset)
      => UnifiedMessage(TELEGRAM, tg_updates[i].update_id,
                        tg_updates[i].date * 1000) \in delivered["agent"]

\* C4: with since_timestamp_utc_ms = T > 0 no fetch_messages returns, or
\* collects, a message whose timestamp_utc_ms is <= T.
C4_Watermark ==
  \A c \in PollIds :
    call[c].since_ms > 0 =>
      \A m \in Range(call[c].all_messages) \cup Range(call[c].frame.out) :
        m.timestamp_utc_ms > call[c].since_ms

\* the Discord upstream had a message at the watermark to hand over, the
\* Telegram upstream handed over an older one, and a younger one got through
C4_Witness ==
  /\ Ok("rpc")
  /\ call["rpc"].clean
  /\ call["rpc"].since_ms = 1500
  /\ Range(call["rpc"].fetched) = {TELEGRAM, DISCORD}
  /\ \E m \in dc_messages :
       m.type = 0 /\ _discord_snowflake_to_ms(m.id) = 1500
  /\ \E i \in 1..Len(tg_updates) :
       /\ tg_updates[i].has_msg
       /\ tg_updates[i].date * 1000 <= 1500
       /\ tg_offset # None /\ tg_updates[i].update_id < tg_offset
  /\ call["rpc"].resp.messages # <<>>

\* C5: when the fetch_messages of a matched adapter raises, the call ends at
\* once with no messages, status INTERNAL and that adapter's error message;
\* every other call ends OK after all its adapters were fetched.
C5_FailWhole ==
  \A c \in PollIds :
    /\ call[c].failed # <<>> =>
         /\ Done(c)
         /\ call[c].resp.status = "INTERNAL"
         /\ call[c].resp.messages = <<>>
         /\ call[c].resp.details = ErrorMessage(call[c].failed[1])
         /\ call[c].failed = <<call[c].fetched[Len(call[c].fetched)]>>
    /\ (Done(c) /\ call[c].failed = <<>>) =>
         /\ call[c].resp.status = "OK"
         /\ call[c].fetched = call[c].adapters

\* a batch was fetched from one adapter before another adapter raised
C5_Witness ==
  /\ Done("rpc")
  /\ call["rpc"].resp.status = "INTERNAL"
  /\ call["rpc"].all_messages # <<>>
  /\ call["rpc"].resp.messages = <<>>

\* C6: the fetches of one call run concurrently: by the time the fetch of a
\* matched adapter comes back from its HTTP call, the fetch of every matched
\* adapter has been started.
C6_FanOut ==
  \A c \in PollIds :
    (Cardinality(Range(call[c].adapters)) >= 2 /\ call[c].returned >= 1)
    => Range(call[c].fetched) = Range(call[c].adapters)

Registered == Range(adapters_by_platform)

\* C7 as stated: all configured adapters when platforms is empty, otherwise
\* exactly the configured adapters whose platform occurs in platforms.
C7_Original ==
  \A c \in PollIds :
    Ok(c) =>
      Range(call[c].fetched) =
        IF call[c].platforms = <<>> THEN Registered
        ELSE Registered \cap Range(call[c].platforms)

\* the adapters a platforms list selects
Selected(platforms) ==
  IF platforms = <<>> \/ platforms = <<UNSPECIFIED>> THEN Registered
  ELSE Registered \cap Range(platforms)

\* C7, amended: the adapters of a call are all configured adapters when
\* platforms is empty or is [UNSPECIFIED], otherwise the configured adapters
\* whose platform occurs in platforms; no other adapter is fetched, a call
\* without adapter error has fetched every one of them, and every message of
\* the response is of a selected platform.
C7_Selected ==
  \A c \in PollIds :
    call[c].pc # "idle" =>
      /\ Range(call[c].adapters) = Selected(call[c].platforms)
      /\ Range(call[c].fetched) \subseteq Selected(call[c].platforms)
      /\ Ok(c) => Range(call[c].fetched) = Selected(call[c].platforms)
      /\ \A m \in Range(call[c].resp.messages) :
           m.platform \in Selected(call[c].platforms)

\* platforms=[DISCORD] over Telegram and Discord, both with messages waiting:
\* only Discord was fetched and only its message is returned
C7_Witness ==
  /\ Ok("rpc")
  /\ call["rpc"].platforms = <<DISCORD>>
  /\ {TELEGRAM, DISCORD} \subseteq Registered
  /\ call["rpc"].fetched = <<DISCORD>>
  /\ call["rpc"].resp.messages # <<>>
  /\ \E i \in 1..Len(tg_updates) : tg_updates[i].has_msg
  /\ tg_offset = None

\* C8 as stated: the response is the min(N, k) oldest of the k messages
\* pending upstream (upstream unchanged during the call, every HTTP status 200)
C8_Original ==
  \A c \in PollIds :
    (Ok(c) /\ call[c].clean) =>
      TsOf(call[c].resp.messages) =
        TsOf(PySlice(call[c].pending, call[c].max_messages))

\* scenario A's data: Telegram holds t=1000 and then t=2000, Discord t=1500
ScenarioA(k) ==
  /\ k.clean
  /\ TsOf(k.pending) = <<1000, 1500, 2000>>
  /\ k.pending[1].platform = TELEGRAM
  /\ k.pending[2].platform = DISCORD
  /\ k.pending[3].platform = TELEGRAM
  /\ k.pending[1].id < k.pending[3].id
  /\ Cardinality(dc_messages) = 1

\* C8, amended: the response is the min(N, f) smallest-timestamp messages of
\* the f messages the matched adapters returned, each adapter asked for at
\* most max(1, N \div n) messages; on scenario A's data N = 2 returns t=1000
\* and t=1500.
C8_OldestFetched ==
  \A c \in PollIds :
    Ok(c) =>
      LET k == call[c]
          n == Len(k.adapters)
      IN  /\ Len(k.resp.messages) = Min(k.max_messages, Len(k.all_messages))
          /\ \A i \in 1..Len(k.resp.messages) :
               /\ \E j \in 1..Len(k.all_messages) :
                    k.all_messages[j] = k.resp.messages[i]
               /\ \A j \in 1..Len(k.all_messages) :
                    k.all_messages[j] \notin Range(k.resp.messages)
                    => k.resp.messages[i].timestamp_utc_ms
                         <= k.all_messages[j].timestamp_utc_ms
          /\ n > 0 => k.per_adapter = Max(1, k.max_messages \div n)
          /\ Len(k.all_messages) <= n * k.per_adapter
          /\ (ScenarioA(k) /\ k.requested = 2)
               => TsOf(k.resp.messages) = <<1000, 1500>>

\* scenario C
C8_Witness ==
  /\ Ok("rpc")
  /\ ScenarioA(call["rpc"])
  /\ call["rpc"].requested = 2
  /\ TsOf(call["rpc"].resp.messages) = <<1000, 1500>>
  /\ \E i \in 1..Len(tg_updates) :
       tg_updates[i].date = 2 /\ tg_updates[i].update_id >= tg_offset

\* C9: every HealthResponse is ok=true with the configured version, and the
\* Health call leaves the adapters, their upstreams and the other calls alone.
C9_Health ==
  /\ [](health # NoHealth => health = [ok |-> TRUE, version |-> version])
  /\ [][health' # health =>
          UNCHANGED << tg_offset, upstream_vars, call, stream, agent >>]_vars

\* Health has answered with a version other than the default while a poll and
\* a stream are suspended on their HTTP calls
C9_Witness ==
  /\ health.ok
  /\ health.version = "1.0"
  /\ call["agent"].pc = "http"
  /\ stream.pc = "http"

\* C10: once the caller has cancelled the stream, no fetch_messages call is
\* started, the stream does not end by raising, and it ends.
C10_CancelStops ==
  /\ [][stream.cancelled =>
          /\ stream'.odd_fetches = stream.odd_fetches
          /\ ~stream'.raised]_vars
  /\ (stream.cancelled ~> stream.pc = "ended")

\* a stream that had yielded messages has ended on its cancellation
C10_Witness ==
  /\ stream.cancelled
  /\ stream.pc = "ended"
  /\ ~stream.raised
  /\ stream.since_ms > 0

\* the largest timestamp_utc_ms of a set of messages, 0 for none
MaxTs(S) ==
  IF S = {} THEN 0
  ELSE LET m == CHOOSE x \in S :
                  \A y \in S : y.timestamp_utc_ms <= x.timestamp_utc_ms
       IN  m.timestamp_utc_ms

\* C11: a StreamMessages call uses one adapter, the first of the list resolved
\* from its platforms: every fetch goes to it, every message yielded or about
\* to be yielded is of its platform, and no other adapter is called (the
\* Telegram offset stays untouched by a stream over another adapter); a stream
\* that resolves to no adapter ends without any fetch.
C11_OneAdapter ==
  stream.pc # "idle" =>
    LET adapters == _adapters_for_request(stream.platforms)
    IN  IF adapters = <<>>
        THEN /\ stream.pc = "ended"
             /\ stream.fetched = {}
             /\ delivered["stream"] = {}
        ELSE /\ stream.adapter = adapters[1]
             /\ stream.fetched \subseteq {adapters[1]}
             /\ stream.frame.stage = "http"
                  => stream.frame.platform = adapters[1]
             /\ \A m \in delivered["stream"] \cup Range(stream.batch) :
                  m.platform = adapters[1]
             /\ adapters[1] # TELEGRAM => tg_offset = None

\* a stream over [UNSPECIFIED, DISCORD, TELEGRAM] has yielded a Discord message
\* and has fetched again, while a Telegram message waits unfetched
C11_Witness ==
  /\ stream.platforms = <<UNSPECIFIED, DISCORD, TELEGRAM>>
  /\ {TELEGRAM, DISCORD} \subseteq Registered
  /\ stream.adapter = DISCORD
  /\ delivered["stream"] # {}
  /\ stream.fetched = {DISCORD}
  /\ ~stream.odd_fetches
  /\ \E i \in 1..Len(tg_updates) : tg_updates[i].has_msg
  /\ tg_offset = None

\* C12: the watermark of a stream starts at 0, never decreases, is the largest
\* timestamp_utc_ms yielded so far on the stream, and a fetch in progress was
\* asked for at most 50 messages since that watermark.
C12_StreamWatermark ==
  /\ [](/\ stream.pc = "idle" => stream.since_ms = 0
        /\ stream.since_ms = MaxTs(delivered["stream"])
        /\ stream.pc = "http" =>
             /\ stream.frame.since = stream.since_ms
             /\ stream.frame.max = 50
             /\ stream.frame.limit <= 50)
  /\ [][stream'.since_ms >= stream.since_ms]_vars

\* a fetch since 2000 is in progress after the stream has yielded a message of
\* t=2000 and then an older one of t=1000
C12_Witness ==
  /\ stream.pc = "http"
  /\ stream.frame.since = 2000
  /\ \E m1, m2 \in delivered["stream"] :
       /\ m1.id < m2.id
       /\ m1.platform = TELEGRAM /\ m2.platform = TELEGRAM
       /\ m1.timestamp_utc_ms = 2000
       /\ m2.timestamp_utc_ms = 1000

\* C13: TelegramAdapter.fetch_messages is safe under overlapping calls on one
\* instance (a PollMessages call beside a StreamMessages call): the update
\* offset never decreases and no update is returned by more than one call.
C13_ConcurrentSafe ==
  /\ [][tg_offset' >= tg_offset]_vars
  /\ [](delivered["agent"] \cap delivered["stream"] = {})

\* the adapter of a platform has the credentials its fetch_messages requires
HasCredentials(p) ==
  IF p = TELEGRAM THEN tg_token
  ELSE IF p = DISCORD THEN dc_token /\ dc_channel_ids # <<>>
  ELSE wa_creds

\* C14: an adapter without credentials consumes no budget.  The budget handed
\* to each adapter of a call is max(1, max_messages \div n) with n the number
\* of matched adapters that have credentials; and when Telegram is the only
\* one with credentials and holds only messages, a call with since 0 over an
\* undisturbed upstream returns as many messages as are pending, up to
\* max_messages.
C14_NoBudgetForUnconfigured ==
  \A c \in PollIds :
    call[c].pc # "idle" =>
      LET k    == call[c]
          conf == SelectSeq(k.adapters, HasCredentials)
      IN  conf # <<>> =>
            /\ k.per_adapter = Max(1, k.max_messages \div Len(conf))
            /\ (/\ Ok(c) /\ k.clean /\ k.since_ms = 0
                /\ Range(conf) = {TELEGRAM}
                /\ \A i \in 1..Len(tg_updates) : tg_updates[i].has_msg)
               => Len(k.resp.messages) = Min(k.max_messages, Len(k.pending))

\* budgets fetch_messages is called with
Budgets == {1, MaxRequested, max_messages_per_poll, STREAM_MAX_MESSAGES,
            DEFAULT_MAX_MESSAGES}

\* C15: for an adapter whose credentials are absent, fetch_messages returns an
\* empty list at once for every since and max (no HTTP call, no exception), no
\* call is ever suspended in it or failed by it or holds a message of its
\* platform, and the Telegram offset stays as constructed.
C15_NoCredentials ==
  \A p \in {TELEGRAM, DISCORD, WHATSAPP} :
    ~HasCredentials(p) =>
      /\ \A since \in RpcSince, max \in Budgets :
           FetchBegin(p, since, max) = Returned(p, <<>>)
      /\ \A c \in PollIds :
           /\ call[c].frame.platform # p
           /\ p \notin Range(call[c].failed)
           /\ \A m \in Range(call[c].all_messages)
                       \cup Range(call[c].resp.messages) : m.platform # p
      /\ p = TELEGRAM => tg_offset = None

\* a call since 1500 over Telegram without token, Discord without channel ids
\* and WhatsApp without credentials has ended OK without any HTTP call
C15_Witness ==
  /\ Ok("rpc")
  /\ call["rpc"].since_ms = 1500
  /\ call["rpc"].fetched = <<TELEGRAM, DISCORD, WHATSAPP>>
  /\ ~tg_token /\ dc_token /\ dc_channel_ids = <<>> /\ ~wa_creds
  /\ call["rpc"].returned = 0
  /\ call["rpc"].resp.messages = <<>>

\* C16: an unreachable upstream makes no fetch_messages raise: no call has an
\* adapter that raised, and every call ends OK.
C16_UnreachableAbsorbed ==
  \A c \in PollIds :
    /\ call[c].failed = <<>>
    /\ Done(c) => call[c].resp.status = "OK"

\* C17: a non-200 answer is absorbed.  Whenever a fetch is suspended on its
\* HTTP call, a non-200 answer makes it neither raise nor lose what it has
\* collected: Telegram returns an empty list and keeps its offset, Discord goes
\* on to the next channel or returns, with the messages of the channels
\* answered so far.  A step in which a call meets its first non-200 answer
\* leaves the offset alone, keeps every message the call holds and does not
\* end the call INTERNAL.
C17_NonOkAbsorbed ==
  /\ [](\A c \in PollIds :
          call[c].pc = "http" =>
            LET f == call[c].frame
            IN  \A g \in HttpResume(f, "non200") :
                  /\ g.stage # "raise"
                  /\ Range(g.out) = Range(f.out)
                  /\ f.platform = TELEGRAM =>
                       /\ g = Returned(TELEGRAM, <<>>)
                       /\ OffsetAfter(f, "non200") = tg_offset
                  /\ f.platform = DISCORD =>
                       IF f.ch < Len(dc_channel_ids)
                       THEN g.stage = "http" /\ g.ch = f.ch + 1
                       ELSE g.stage = "ret")
  /\ [][\A c \in PollIds :
          (/\ call[c].pc = "http"
           /\ call[c].http_ok /\ ~call'[c].http_ok
           /\ call'[c].failed = call[c].failed)
          => /\ tg_offset' = tg_offset
             /\ Range(call[c].frame.out) \cup Range(call[c].all_messages)
                  \subseteq Range(call'[c].frame.out)
                            \cup Range(call'[c].all_messages)
             /\ call'[c].resp.status # "INTERNAL"]_vars

\* channel 1 answered non-200: the response has the Telegram message and the
\* message of channel 2, and lacks the message waiting in channel 1
C17_Witness ==
  /\ Ok("rpc")
  /\ ~call["rpc"].http_ok
  /\ call["rpc"].requested = 0
  /\ dc_channel_ids = <<1, 2>>
  /\ \E m \in Range(call["rpc"].resp.messages) : m.platform = TELEGRAM
  /\ \E m \in Range(call["rpc"].resp.messages) :
       m.platform = DISCORD /\ m.id = Snowflake(2, 2)
  /\ \E d \in dc_messages :
       /\ d.channel_id = 1 /\ d.type = 0
       /\ _discord_snowflake_to_ms(d.id) > call["rpc"].since_ms
       /\ \A m \in Range(call["rpc"].resp.messages) : m.id # d.id

\* C18: the consumer's watermark starts at 0, never decreases, equals the
\* largest timestamp_utc_ms of the messages received so far (0 for none), and
\* every PollMessagesRequest of the loop carries it, with max_messages 20 and
\* no platforms.
C18_AgentWatermark ==
  /\ [](agent.pc = "start" => agent.since_ms = 0)
  /\ [](agent.since_ms = MaxTs(delivered["agent"]))
  /\ [](agent.pc = "wait" /\ call["agent"].pc # "idle" =>
          /\ call["agent"].since_ms = agent.since_ms
          /\ call["agent"].requested = max_messages_per_poll
          /\ call["agent"].platforms = <<>>)
  /\ [][agent'.since_ms >= agent.since_ms]_vars

\* a poll carrying 2000 is in flight after a response with a message of
\* t=1000 followed by one of t=2000 has been consumed
C18_Witness ==
  /\ agent.pc = "wait"
  /\ call["agent"].pc # "idle"
  /\ call["agent"].since_ms = 2000
  /\ agent.since_ms = 2000
  /\ \E m1, m2 \in delivered["agent"] :
       m1.timestamp_utc_ms = 1000 /\ m2.timestamp_utc_ms = 2000

\* C19: a run_agent_loop task that was cancelled, at the PollMessages call,
\* while a message is processed or in the sleep between polls, has closed its
\* channel and has ended as cancelled (awaiting it raises CancelledError).
C19_EndsCancelled ==
  (agent.pc = "ended" /\ agent.cancelled) =>
    agent.closed /\ agent.outcome = "cancelled"

RECURSIVE FlattenBatches(_)
FlattenBatches(fs) ==
  IF fs = <<>> THEN <<>>
  ELSE FlattenBatches(SubSeq(fs, 1, Len(fs) - 1)) \o fs[Len(fs)].batch

\* C21: the default stream_messages yields the messages of the fetched batches
\* in batch order; every fetch is called with max_messages 50 and with since
\* equal to the largest timestamp yielded before it (0 for none), which never
\* decreases from one fetch to the next; the 5 s sleep follows a fetch exactly
\* when its batch was empty.
C21_DefaultStream ==
  LET g == generator
      n == Len(g.fetches)
  IN  /\ n = 0 => g.yielded = <<>>
      /\ n > 0 => g.yielded = FlattenBatches(SubSeq(g.fetches, 1, n - 1))
                                \o SubSeq(g.fetches[n].batch, 1, g.i)
      /\ \A k \in 1..n :
           /\ g.fetches[k].max = 50
           /\ g.fetches[k].since =
                MaxTs(Range(FlattenBatches(SubSeq(g.fetches, 1, k - 1))))
           /\ k > 1 => g.fetches[k].since >= g.fetches[k - 1].since
           /\ k < n => (g.fetches[k].slept <=> g.fetches[k].batch = <<>>)
      /\ g.pc = "sleep" <=>
           (n > 0 /\ g.fetches[n].returned /\ g.fetches[n].batch = <<>>)
      /\ n > 0 /\ g.pc # "sleep" => ~g.fetches[n].slept

\* a third fetch with since 2000: the first returned a message of t=2000 and
\* one of t=1000 and was followed at once by the second, which returned
\* nothing and was followed by the sleep
C21_Witness ==
  /\ generator.pc = "fetch"
  /\ Len(generator.fetches) = 3
  /\ Len(generator.yielded) = 2
  /\ generator.yielded[1].timestamp_utc_ms = 2000
  /\ generator.yielded[2].timestamp_utc_ms = 1000
  /\ ~generator.fetches[1].slept
  /\ generator.fetches[2].batch = <<>>
  /\ generator.fetches[2].slept
  /\ generator.fetches[3].since = 2000

\* C22: a gateway that listens with transport encryption enabled (use_tls)
\* has bound a secure port with the loaded certificate and key; an insecure
\* port is bound only when transport encryption is not enabled.
C22_TlsSecured ==
  server.pc = "listening" =>
    /\ server.use_tls => server.port = "secure" /\ server.server_credentials
    /\ server.port = "insecure" => ~server.use_tls

\* C23: a timestamp at or after the Discord epoch 1420070400000, taken to a
\* snowflake by _ms_to_discord_snowflake and back by _discord_snowflake_to_ms,
\* is the same number of milliseconds.
C23_RoundTrip ==
  /\ ~BigLess(conversion.ms, DISCORD_EPOCH_MS) \/ conversion.pc = "none"
  /\ conversion.pc = "back" => conversion.back = conversion.ms

\* 1700000000000 has gone to the id "1174109840998400000" and back
C23_Witness ==
  /\ conversion.pc = "back"
  /\ Str(conversion.ms) = << 1, 7, 0, 0, 0, 0, 0, 0, 0, 0, 0, 0, 0 >>
  /\ conversion.snowflake =
       << 1, 1, 7, 4, 1, 0, 9, 8, 4, 0, 9, 9, 8, 4, 0, 0, 0, 0, 0 >>
  /\ Str(conversion.back) = Str(conversion.ms)

\* C24: in a PollMessages call that resolves to n >= 1 adapters (n entries of
\* the resolved list) with cap M, every fetch_messages is called with the
\* since_timestamp_utc_ms of the request and with max_messages
\* max(1, M \div n), and a call that succeeds has called every resolved
\* adapter, in the order of the list.
C24_FetchArguments ==
  \A c \in PollIds :
    LET k == call[c]
        n == Len(k.adapters)
    IN  (k.pc # "idle" /\ n >= 1) =>
          /\ k.per_adapter = Max(1, Cap(k) \div n)
          /\ k.pc = "http" =>
               /\ k.frame.platform = k.adapters[k.idx]
               /\ k.frame.since = k.since_ms
               /\ k.frame.max = Max(1, Cap(k) \div n)
          /\ Ok(c) => k.fetched = k.adapters

\* a request without max_messages and with since 1500 over three adapters:
\* the Discord fetch, the second, is in progress with max_messages 33
C24_Witness ==
  /\ call["rpc"].pc = "http"
  /\ call["rpc"].requested = 0
  /\ call["rpc"].since_ms = 1500
  /\ call["rpc"].adapters = <<TELEGRAM, DISCORD, WHATSAPP>>
  /\ call["rpc"].frame.platform = DISCORD
  /\ call["rpc"].frame.since = 1500
  /\ call["rpc"].frame.max = 33

\* the offset that follows the updates received so far
OffsetDue == IF tg_received = 0 THEN None ELSE tg_received + 1

\* C25: over calls of TelegramAdapter.fetch_messages that do not overlap, the
\* adapter's offset is the highest update_id received so far plus 1 (none
\* before the first update), every getUpdates request carries it, and the
\* updates a request is answered with are all above those received before.
C25_OffsetFollows ==
  /\ tg_offset = OffsetDue
  /\ \A c \in PollIds :
       (call[c].pc = "http" /\ call[c].frame.platform = TELEGRAM) =>
         /\ call[c].frame.offset = OffsetDue
         /\ \A u \in Range(TgGetUpdates(call[c].frame.offset,
                                        call[c].frame.limit)) :
              u.update_id > tg_received

\* a second request is out with offset 2 after update 1 was received, and
\* update 2 is waiting
C25_Witness ==
  /\ call["rpc"].pc = "http"
  /\ call["rpc"].frame.platform = TELEGRAM
  /\ call["rpc"].frame.offset = 2
  /\ tg_received = 1
  /\ TgGetUpdates(2, call["rpc"].frame.limit) # <<>>

IsDiscord(m) == m.platform = DISCORD

\* C26: a Discord fetch with max_messages M over c >= 1 channels asks every
\* channel for max(1, M \div c) messages and returns the messages of all
\* channels together, sorted by timestamp_utc_ms and cut to M: when no channel
\* holds more than its share and nothing disturbs the call, the fetch returns
\* the M oldest of the messages waiting in the channels (all of them when
\* there are no more than M).
C26_AllChannels ==
  \A c \in PollIds :
    LET k == call[c]
        M == k.per_adapter
        share == Max(1, M \div Len(dc_channel_ids))
        D == SelectSeq(k.all_messages, IsDiscord)
        P == SelectSeq(k.pending, IsDiscord)
    IN  /\ (k.pc = "http" /\ k.frame.platform = DISCORD)
              => k.frame.limit = share
        /\ (/\ Ok(c) /\ k.clean
            /\ DISCORD \in Range(k.adapters) /\ dc_token
            /\ dc_channel_ids # <<>>
            /\ \A ch \in Range(dc_channel_ids) :
                 Cardinality({ m \in dc_messages : m.channel_id = ch })
                   <= share)
           =>
           /\ Len(D) = Min(M, Len(P))
           /\ Range(D) \subseteq Range(P)
           /\ \A d \in Range(D), m \in Range(P) \ Range(D) :
                d.timestamp_utc_ms <= m.timestamp_utc_ms

\* C27: the Telegram update offset, the only pagination cursor an adapter
\* keeps, changes only in a step of a Telegram fetch_messages: Health, the
\* steps of a PollMessages or StreamMessages call that does not resolve to the
\* Telegram adapter, and the steps of a Discord fetch leave it as it is.
C27_CursorOwned ==
  /\ [][tg_offset' # tg_offset =>
          \/ \E c \in PollIds :
               /\ call[c].pc = "http" /\ call[c].frame.platform = TELEGRAM
               /\ call'[c] # call[c]
          \/ /\ stream.pc = "http" /\ stream.frame.platform = TELEGRAM
             /\ stream' # stream]_vars
  /\ [][health' # health => tg_offset' = tg_offset]_vars
  /\ [][\A c \in PollIds :
          (/\ call'[c] # call[c]
           /\ \/ TELEGRAM \notin Range(call'[c].adapters)
              \/ call[c].pc = "http" /\ call[c].frame.platform # TELEGRAM)
          => tg_offset' = tg_offset]_vars
  /\ [][(stream' # stream /\ stream'.adapter # TELEGRAM)
          => tg_offset' = tg_offset]_vars

\* the offset stands at 2 after a Telegram fetch; since then update 2 has
\* arrived, a PollMessages call over Discord alone has returned a message, the
\* stream over Discord has yielded one and Health has answered
C27_Witness ==
  /\ tg_offset = 2
  /\ Len(tg_updates) = 2
  /\ Ok("rpc")
  /\ call["rpc"].adapters = <<DISCORD>>
  /\ call["rpc"].resp.messages # <<>>
  /\ stream.adapter = DISCORD
  /\ delivered["stream"] # {}
  /\ health.ok

\* C28: a PollMessages call that ended INTERNAL has left the cursors of the
\* adapters where they were: the Telegram offset has not moved past any
\* message the call fetched and discarded, so that a later call gets it again
\* (for calls that resolve to each adapter once).
C28_FailedCallNoEffect ==
  \A c \in PollIds :
    (/\ Done(c) /\ call[c].resp.status = "INTERNAL"
     /\ Cardinality(Range(call[c].adapters)) = Len(call[c].adapters)) =>
      \A m \in Range(call[c].all_messages) :
        m.platform = TELEGRAM => (tg_offset = None \/ m.id >= tg_offset)

\* C29: whatever the platforms filter, repeated values included, no adapter
\* is fetched more than once in a PollMessages call and the budget of each is
\* max(1, max_messages \div n) with n the number of distinct matched adapters.
C29_ResolvedSet ==
  \A c \in PollIds :
    LET k == call[c]
    IN  k.pc # "idle" =>
          /\ \A i, j \in 1..Len(k.fetched) :
               k.fetched[i] = k.fetched[j] => i = j
          /\ k.adapters # <<>> =>
               k.per_adapter =
                 Max(1, k.max_messages \div Cardinality(Range(k.adapters)))

\* C30: consumers are independent.  When the consumer's loop begins a poll,
\* every message the stream consumer has received so far whose timestamp is
\* above the watermark of the poll is among the messages waiting upstream for
\* that poll, which are the only ones the poll can return.
C30_IndependentConsumers ==
  [][(call["agent"].pc = "idle" /\ call'["agent"].pc # "idle") =>
       \A m \in delivered["stream"] :
         m.timestamp_utc_ms > call'["agent"].since_ms =>
           m \in Range(call'["agent"].pending)]_vars

====
